---- MODULE Spec2Model ----
(***************************************************************************)
(* Model of angr/engines/soot/engine.py: SimEngineSoot, the Soot           *)
(* execution engine.  One execution state is processed per step; the       *)
(* successor accumulator (SimSuccessors) is the sequence `successors`      *)
(* together with the flag `processed`.  An exception that leaves a call    *)
(* is recorded in `raised`.                                                *)
(***************************************************************************)
EXTENDS Integers, Sequences, FiniteSets, TLC

VARIABLES
    state,       \* the execution state the engine is handed (SimState)
    successors,  \* SimSuccessors: sequence of added successors
    processed,   \* SimSuccessors.processed
    raised,      \* name of the exception that left the last call, or "None"
    handled,     \* statement indices passed to _handle_statement by the last _process
    nli,         \* calls of _get_next_linear_instruction made by the last operation
    op,          \* the last operation and its arguments
    api,         \* number of direct calls of the engine's static methods so far
    calls,       \* the calls whose frames were pushed on the call stack since Init
    project,     \* Project: use_sim_procedures and the cache _sim_procedures
    lookup       \* the _get_sim_procedure call of the last operation and the
                 \* procedure instances created so far

vars == <<state, successors, processed, raised, handled, nli, op, api, calls, project, lookup>>

----------------------------------------------------------------------------
(* Bounds of the exploration *)

MaxApiCalls == 2

----------------------------------------------------------------------------
(* Values, arguments, locals *)

NoneVal == [t |-> "None", v |-> 0]
ObjA == [t |-> "ref", v |-> 1]
ObjB == [t |-> "ref", v |-> 2]
IntB == [t |-> "byte", v |-> 7]

NoneArg == [value |-> NoneVal, type |-> "None"]
ThisArg == [value |-> ObjA, type |-> "Object"]
ParamArg == [value |-> IntB, type |-> "byte"]
RefArg == [value |-> ObjB, type |-> "Object"]

NoneVar == [name |-> "None", type |-> "None"]
LocalR0 == [name |-> "r0", type |-> "Object"]
LocalB0 == [name |-> "b0", type |-> "byte"]
LocalS0 == [name |-> "s0", type |-> "short"]

Slots == {"this", "param_0", "param_1", "param_2", "r0", "b0", "s0"}

EmptyScope == [s \in Slots |-> NoneVal]

ParamRef(idx) == <<"param_0", "param_1", "param_2">>[idx + 1]

----------------------------------------------------------------------------
(* Addresses *)

Terminator == [method |-> "<terminator>", block_idx |-> 0, stmt_idx |-> 0]

SootAddressDescriptor(m, b, s) == [method |-> m, block_idx |-> b, stmt_idx |-> s]

NativeAddr(m) == [method |-> m, block_idx |-> -1, stmt_idx |-> -1]

IsNativeAddr(a) == a.block_idx = -1

IsTerminator(a) == a = Terminator

----------------------------------------------------------------------------
(* The loaded program: statements as the translator classifies them *)

NoTargets == <<>>

Stmt(kind) ==
    [kind |-> kind, callee |-> "None", args |-> <<>>, ret_var |-> NoneVar,
     targets |-> NoTargets, value |-> NoneVal]

Nop == Stmt("assign")
Bad == Stmt("untranslatable")
Ret == Stmt("returnvoid")
RetV == [Stmt("return") EXCEPT !.value = ObjB]

InvN == [Stmt("invoke") EXCEPT !.callee = "N", !.args = <<ThisArg, ParamArg>>,
                               !.ret_var = LocalR0]
InvNat == [Stmt("invoke") EXCEPT !.callee = "Nat", !.args = <<NoneArg, ParamArg>>,
                                 !.ret_var = LocalB0]
InvNatI == [Stmt("invoke") EXCEPT !.callee = "NatI", !.args = <<ThisArg, RefArg, ParamArg>>]
InvLib == [Stmt("invoke") EXCEPT !.callee = "Lib", !.args = <<NoneArg>>]
InvB == [Stmt("invoke") EXCEPT !.callee = "B", !.args = <<NoneArg>>]

NoTarget == [method |-> "None", block_idx |-> 0, stmt_idx |-> 0]

Br(m) ==
    [Stmt("if") EXCEPT !.targets = <<[target |-> SootAddressDescriptor(m, 0, 0), condition |-> "c"],
                                     [target |-> NoTarget, condition |-> "!c"]>>]

\* a three-way switch whose guards overlap and whose second target is absent
Sw(m) ==
    [Stmt("switch") EXCEPT !.targets = <<[target |-> SootAddressDescriptor(m, 1, 0), condition |-> "c1"],
                                         [target |-> NoTarget, condition |-> "c1"],
                                         [target |-> SootAddressDescriptor(m, 0, 0), condition |-> "c2"]>>]

\* Methods the loader knows (get_soot_method succeeds); "Lib" is library code
\* that was never loaded.
Methods == {"A", "B", "C", "D", "E", "F", "G", "H", "L", "M", "N", "S", "Nat", "NatI"}

NativeMethods == {"Nat", "NatI"}

Blocks(m) ==
    CASE m = "A" -> << <<Nop, Nop>> >>
      [] m = "B" -> << <<InvN, Ret>> >>
      [] m = "C" -> << <<Nop, InvNat, Nop>>, <<Bad, RetV>> >>
      [] m = "D" -> << <<Nop>>, <<Nop, InvN>>, <<Ret>> >>
      [] m = "E" -> << <<Ret, Nop>>, <<Bad, InvNat>> >>
      [] m = "F" -> << <<Nop, Br("F"), Nop>>, <<>> >>
      [] m = "G" -> << <<InvLib, Nop>>, <<Br("G")>> >>
      [] m = "H" -> << <<InvNatI, Bad>>, <<Nop, InvN>> >>
      [] m = "L" -> << <<Nop, Bad, Nop>>, <<Ret>> >>
      [] m = "M" -> << <<InvB, Ret>> >>
      [] m = "N" -> << <<Nop>>, <<RetV>> >>
      [] m = "S" -> << <<Sw("S")>>, <<Nop>> >>
      [] OTHER -> <<>>

RetType(m) == IF m = "Nat" THEN "byte" ELSE IF m = "NatI" THEN "short" ELSE "Object"

\* method descriptors: the library methods "LibP" and "LibQ" are the two
\* overloads of Lang.valueOf
ClassName(m) ==
    IF m \in NativeMethods THEN "NativeLib"
    ELSE IF m \in {"LibP", "LibQ"} THEN "Lang" ELSE "Main"

MethodName(m) == IF m \in {"LibP", "LibQ"} THEN "valueOf" ELSE m

Params(m) ==
    IF m = "LibP" THEN <<"int", "int">> ELSE IF m = "LibQ" THEN <<"int">> ELSE <<>>

----------------------------------------------------------------------------
(* Execution states *)

BaseFrame == [ret_addr |-> Terminator, invoke_return_variable |-> NoneVar,
              procedure_data |-> "None"]

\* obj names the SimState object with its call stack and memory plugins: 0 is
\* the state the engine is handed, k > 0 the k-th copy made while it is processed
MkState(ip, callstack, memory) ==
    [obj |-> 0, ip |-> ip, callstack |-> callstack, memory |-> memory,
     invoke_return_value |-> NoneVal, native_args |-> <<>>,
     native_ret_type |-> "None", initialized |-> {}, jni_local |-> {}]

TopFrame(st) == st.callstack[Len(st.callstack)]

Depth(st) == Len(st.callstack)

Scopes(st) == Len(st.memory)

\* javavm_memory.store: writes the current (top) stack frame
Store(memory, slot, value) ==
    IF memory = <<>> THEN memory
    ELSE [memory EXCEPT ![Len(memory)] = [@ EXCEPT ![slot] = value]]

\* javavm_memory.pop_stack_frame: self._stack = self._stack[:-1]
PopStackFrame(memory) ==
    IF memory = <<>> THEN memory ELSE SubSeq(memory, 1, Len(memory) - 1)

Load(st, slot) ==
    IF st.memory = <<>> THEN NoneVal ELSE st.memory[Len(st.memory)][slot]

----------------------------------------------------------------------------
(* The successor accumulator *)

EmptyAcc == [successors |-> <<>>, processed |-> FALSE, raised |-> "None",
             handled |-> <<>>, nli |-> <<>>, copies |-> 0]

\* state.copy(): a new state object with its own call stack and memory
StateCopy(st, acc) == [st EXCEPT !.obj = acc.copies + 1]

NoteCopy(acc) == [acc EXCEPT !.copies = @ + 1]

\* SimSuccessors.add_successor: the added state continues at target; site names
\* the add_successor call, stmt_idx the statement being handled and flag the
\* value the processed flag had when the successor was added
AddSuccessor(acc, st, target, guard, jumpkind, site) ==
    [acc EXCEPT !.successors =
        Append(@, [state |-> [st EXCEPT !.ip = target], target |-> target, guard |-> guard,
                   jumpkind |-> jumpkind, site |-> site, flag |-> acc.processed,
                   stmt_idx |-> IF acc.handled = <<>> THEN -1
                                ELSE acc.handled[Len(acc.handled)]])]

Raise(acc, exc) == [acc EXCEPT !.raised = exc]

----------------------------------------------------------------------------
(* _get_next_linear_instruction, lines 217-233 *)

NextLinearIn(blocks, addr, stmt_idx) ==
    IF stmt_idx + 1 < Len(blocks[addr.block_idx + 1])
    THEN [ok |-> TRUE, addr |-> SootAddressDescriptor(addr.method, addr.block_idx, stmt_idx + 1)]
    ELSE IF addr.block_idx + 1 < Len(blocks)
         THEN [ok |-> TRUE, addr |-> SootAddressDescriptor(addr.method, addr.block_idx + 1, 0)]
         ELSE [ok |-> FALSE, addr |-> NoTarget]

\* mutant: the bounds test is off by one
GetNextLinearInstruction_OffByOne(st, stmt_idx) ==
    IF stmt_idx + 1 <= Len(Blocks(st.ip.method)[st.ip.block_idx + 1])
    THEN [ok |-> TRUE,
          addr |-> SootAddressDescriptor(st.ip.method, st.ip.block_idx, stmt_idx + 1)]
    ELSE NextLinearIn(Blocks(st.ip.method), st.ip, stmt_idx)

\* mutant: the statement index is not reset when the next block is entered
GetNextLinearInstruction_KeepIndex(st, stmt_idx) ==
    IF NextLinearIn(Blocks(st.ip.method), st.ip, stmt_idx).ok
    THEN [ok |-> TRUE,
          addr |-> [NextLinearIn(Blocks(st.ip.method), st.ip, stmt_idx).addr
                      EXCEPT !.stmt_idx = stmt_idx + 1]]
    ELSE NextLinearIn(Blocks(st.ip.method), st.ip, stmt_idx)

GetNextLinearInstruction(st, stmt_idx) ==
    NextLinearIn(Blocks(st.ip.method), st.ip, stmt_idx)

NoteNli(acc, st, stmt_idx, r) ==
    [acc EXCEPT !.nli = Append(@, [method |-> st.ip.method, block_idx |-> st.ip.block_idx,
                                   stmt_idx |-> stmt_idx, ok |-> r.ok, addr |-> r.addr])]

----------------------------------------------------------------------------
(* Call stack manager: setup_callsite (235-253), prepare_return_state (255-286) *)

\* the scope contents after lines 244-253: 'this' and the positional parameters
StoreArguments(memory, args) ==
    IF args = <<>> THEN memory
    ELSE LET this_ref == Head(args)
             rest == Tail(args)
             scope == memory[Len(memory)]
             filled == [s \in Slots |->
                          IF s = "this" /\ this_ref # NoneArg THEN this_ref.value
                          ELSE IF \E i \in 1..Len(rest) : ParamRef(i - 1) = s
                               THEN rest[CHOOSE i \in 1..Len(rest) : ParamRef(i - 1) = s].value
                               ELSE scope[s]]
         IN  [memory EXCEPT ![Len(memory)] = filled]

\* mutant: the call frame is pushed without a memory stack frame
SetupCallsite_NoScope(st, args, ret_addr, ret_var) ==
    [st EXCEPT !.callstack = Append(@, [TopFrame(st) EXCEPT !.ret_addr = ret_addr,
                                                            !.invoke_return_variable = ret_var]),
               !.memory = StoreArguments(@, args)]

SetupCallsite(st, args, ret_addr, ret_var) ==
    LET frame == [TopFrame(st) EXCEPT !.ret_addr = ret_addr,
                                      !.invoke_return_variable = ret_var]
        pushed == Append(st.memory, EmptyScope)
    IN  [st EXCEPT !.callstack = Append(@, frame),
                   !.memory = StoreArguments(pushed, args)]

\* mutant: the return variable is read after the frame was popped
PrepareReturnState_LateRead(st, ret_value) ==
    IF Len(st.callstack) <= 1
    THEN [ok |-> FALSE, state |-> st]
    ELSE LET popped == SubSeq(st.callstack, 1, Len(st.callstack) - 1)
             ret_var == popped[Len(popped)].invoke_return_variable
             memory == PopStackFrame(st.memory)
             s1 == [st EXCEPT !.callstack = popped, !.memory = memory]
         IN  [ok |-> TRUE,
              state |-> IF ret_value = NoneVal THEN s1
                        ELSE IF ret_var # NoneVar
                             THEN [s1 EXCEPT !.memory = Store(memory, ret_var.name, ret_value)]
                             ELSE [s1 EXCEPT !.invoke_return_value = ret_value]]

\* callstack.pop() raises SimEmptyCallStackError when only the bottom frame is left
PrepareReturnState(st, ret_value) ==
    LET ret_var == TopFrame(st).invoke_return_variable
        procedure_data == TopFrame(st).procedure_data
    IN  IF Len(st.callstack) <= 1
        THEN [ok |-> FALSE, state |-> st]
        ELSE LET popped == SubSeq(st.callstack, 1, Len(st.callstack) - 1)
                 callstack == [popped EXCEPT ![Len(popped)].procedure_data = procedure_data]
                 memory == PopStackFrame(st.memory)
                 s1 == [st EXCEPT !.callstack = callstack, !.memory = memory]
             IN  [ok |-> TRUE,
                  state |-> IF ret_value = NoneVal THEN s1
                            ELSE IF ret_var # NoneVar
                                 THEN [s1 EXCEPT !.memory = Store(memory, ret_var.name, ret_value)]
                                 ELSE [s1 EXCEPT !.invoke_return_value = ret_value]]

----------------------------------------------------------------------------
(* JNI native interface: _setup_native_callsite (353-383),                  *)
(* prepare_native_return_state (308-351)                                    *)

JniEnv == [value |-> [t |-> "jni_env", v |-> 0], type |-> "JNIEnv"]

ClassRef(class_name) == [value |-> [t |-> "class", v |-> 0], type |-> "Class"]

PrimitiveTypes == {"boolean", "byte", "char", "short", "int", "long", "float", "double"}

TypeBits(type) == IF type = "byte" THEN 8 ELSE 16

\* simos.cast_primitive: the value resized to the width of the Java type
CastPrimitive(sym, to_type) == [t |-> to_type, v |-> sym.v % (2 ^ TypeBits(to_type))]

\* jni_references.lookup: the Java reference behind an opaque native handle
JniLookup(sym) == IF sym.v % 2 = 1 THEN ObjA ELSE ObjB

\* list.insert(1, x)
Insert1(list, x) ==
    IF list = <<>> THEN <<x>> ELSE <<Head(list), x>> \o Tail(list)

\* lines 359-383 on the state s1 that setup_callsite left
NativeCallState(s1, native_addr, java_method, args) ==
    IF args = <<>>
    THEN [ok |-> FALSE, state |-> s1]
    ELSE IF Head(args) # NoneArg
    THEN [ok |-> TRUE,
          state |-> [s1 EXCEPT !.ip = native_addr,
                               !.native_args = <<JniEnv, Head(args)>>
                                               \o Insert1(Tail(args), Head(args)),
                               !.native_ret_type = RetType(java_method)]]
    ELSE [ok |-> TRUE,
          state |-> [s1 EXCEPT !.ip = native_addr,
                               !.initialized = @ \cup {ClassName(java_method)},
                               !.native_args = <<JniEnv, ClassRef(ClassName(java_method))>>
                                               \o Tail(args),
                               !.native_ret_type = RetType(java_method)]]

SetupNativeCallsite(st, native_addr, java_method, args, ret_addr, ret_var) ==
    NativeCallState(SetupCallsite(st, <<>>, ret_addr, ret_var), native_addr, java_method, args)

\* mutant: the raw native value is passed on without the cast
NativeReturnValue_NoCast(ret_var, ret_symbol) ==
    IF ret_var # NoneVar
    THEN IF ret_var.type \in PrimitiveTypes THEN ret_symbol ELSE JniLookup(ret_symbol)
    ELSE NoneVal

\* lines 324-343: the value handed to prepare_return_state
NativeReturnValue(ret_var, ret_symbol) ==
    IF ret_var # NoneVar
    THEN IF ret_var.type \in PrimitiveTypes
         THEN CastPrimitive(ret_symbol, ret_var.type)
         ELSE JniLookup(ret_symbol)
    ELSE NoneVal

PrepareNativeReturnState(native_state, ret_symbol) ==
    LET ret_state == [native_state EXCEPT !.ip = TopFrame(native_state).ret_addr]
        ret_var == TopFrame(ret_state).invoke_return_variable
        ret_value == NativeReturnValue(ret_var, ret_symbol)
        r == PrepareReturnState(ret_state, ret_value)
    IN  [ok |-> r.ok, ret_value |-> ret_value,
         state |-> [r.state EXCEPT !.jni_local = {}]]

----------------------------------------------------------------------------
(* Procedure hook resolver: _get_sim_procedure (189-211) *)

\* the registry: class name -> prototypes that have a SimProcedure class
SIM_PROCEDURES == [c \in {"Lang"} |-> {"valueOf(int,int)"}]

NoProcedure == [cls |-> "None", id |-> 0]

\* ",".join(params)
RECURSIVE Join(_)
Join(params) ==
    IF params = <<>> THEN ""
    ELSE IF Len(params) = 1 THEN params[1]
    ELSE params[1] \o "," \o Join(Tail(params))

\* line 199: "%s(%s)" % (method.name, ",".join(method.params))
MethodPrototype(m) == MethodName(m) \o "(" \o Join(Params(m)) \o ")"

\* addr in self.project._sim_procedures
Cached(proj, addr) == \E e \in proj.sim_procedures : e.addr = addr

CacheGet(proj, addr) == (CHOOSE e \in proj.sim_procedures : e.addr = addr).proc

\* self.project._sim_procedures[addr] = proc
CachePut(proj, addr, proc) ==
    [proj EXCEPT !.sim_procedures =
        {e \in @ : e.addr # addr} \cup {[addr |-> addr, proc |-> proc]}]

\* procedure_cls(project=self.project): the instance_id-th object created
NewProcedure(m, instance_id) == [cls |-> MethodPrototype(m), id |-> instance_id]

\* mutant: the new instance is not stored in the cache
GetSimProcedure_NoStore(proj, addr, instance_id) ==
    IF Cached(proj, addr)
    THEN [proc |-> CacheGet(proj, addr), project |-> proj, created |-> FALSE]
    ELSE IF /\ ClassName(addr.method) \in DOMAIN SIM_PROCEDURES
            /\ MethodPrototype(addr.method) \in SIM_PROCEDURES[ClassName(addr.method)]
    THEN [proc |-> NewProcedure(addr.method, instance_id), project |-> proj, created |-> TRUE]
    ELSE [proc |-> NoProcedure, project |-> proj, created |-> FALSE]

\* lines 189-211; instance_id names the object a constructor call would create
GetSimProcedure(proj, addr, instance_id) ==
    IF Cached(proj, addr)
    THEN [proc |-> CacheGet(proj, addr), project |-> proj, created |-> FALSE]
    ELSE IF /\ ClassName(addr.method) \in DOMAIN SIM_PROCEDURES
            /\ MethodPrototype(addr.method) \in SIM_PROCEDURES[ClassName(addr.method)]
    THEN [proc |-> NewProcedure(addr.method, instance_id),
          project |-> CachePut(proj, addr, NewProcedure(addr.method, instance_id)),
          created |-> TRUE]
    ELSE [proc |-> NoProcedure, project |-> proj, created |-> FALSE]

\* lines 79-80 skipped: use_sim_procedures is off or the state is at the terminator
NoLookup(proj) == [proc |-> NoProcedure, project |-> proj, created |-> FALSE]

----------------------------------------------------------------------------
(* Statement dispatcher: _handle_statement (130-187), _handle_block         *)
(* (112-128), _process (72-110)                                             *)

NativeInvokeExit(acc, addr, n) ==
    IF ~n.ok
    THEN [acc |-> Raise(acc, "IndexError"), terminate |-> TRUE]
    ELSE [acc |-> AddSuccessor(acc, n.state, addr, "true", "Ijk_Call", "invoke"),
          terminate |-> TRUE]

\* mutant: the call site is set up on the input state itself
InvokeExit_InPlace(invoke_state, acc, stmt, ret_addr) ==
    IF stmt.callee \in NativeMethods
    THEN NativeInvokeExit(acc, NativeAddr(stmt.callee),
                          SetupNativeCallsite([invoke_state EXCEPT !.obj = 0],
                                              NativeAddr(stmt.callee), stmt.callee,
                                              stmt.args, ret_addr, stmt.ret_var))
    ELSE [acc |-> AddSuccessor(acc, SetupCallsite([invoke_state EXCEPT !.obj = 0],
                                                  stmt.args, ret_addr, stmt.ret_var),
                               SootAddressDescriptor(stmt.callee, 0, 0), "true", "Ijk_Call",
                               "invoke"),
          terminate |-> TRUE]

\* lines 149-162: the call site is set up on the copy, the copy is added
InvokeExit(invoke_state, acc, stmt, ret_addr) ==
    IF stmt.callee \in NativeMethods
    THEN NativeInvokeExit(acc, NativeAddr(stmt.callee),
                          SetupNativeCallsite(invoke_state, NativeAddr(stmt.callee),
                                              stmt.callee, stmt.args, ret_addr, stmt.ret_var))
    ELSE [acc |-> AddSuccessor(acc, SetupCallsite(invoke_state, stmt.args, ret_addr,
                                                  stmt.ret_var),
                               SootAddressDescriptor(stmt.callee, 0, 0), "true", "Ijk_Call",
                               "invoke"),
          terminate |-> TRUE]

\* lines 139-148: add invoke exit; the state is copied (141) and the return
\* address is computed (148) before the call site is set up
InvokeAt(st, acc, stmt_idx, stmt, r) ==
    IF ~r.ok
    THEN [acc |-> Raise(NoteNli(NoteCopy(acc), st, stmt_idx, r), "IncorrectLocationException"),
          terminate |-> TRUE]
    ELSE InvokeExit(StateCopy(st, acc), NoteNli(NoteCopy(acc), st, stmt_idx, r), stmt, r.addr)

\* mutant: the invoke exit does not end the block
HandleInvoke_Continue(st, acc, stmt_idx, stmt) ==
    [InvokeAt(st, acc, stmt_idx, stmt, GetNextLinearInstruction(st, stmt_idx))
       EXCEPT !.terminate = FALSE]

\* mutant: the return address is computed from the start index of the step
HandleInvoke_ReturnToStart(st, acc, stmt_idx, stmt) ==
    InvokeAt(st, acc, stmt_idx, stmt, GetNextLinearInstruction(st, st.ip.stmt_idx))

HandleInvoke(st, acc, stmt_idx, stmt) ==
    InvokeAt(st, acc, stmt_idx, stmt, GetNextLinearInstruction(st, stmt_idx))

\* mutant: the fallthrough edge of a branch is taken unconditionally
JumpExit_TrueGuard(st, acc, stmt_idx, pair, r) ==
    IF pair.target = NoTarget
    THEN IF ~r.ok THEN Raise(NoteNli(acc, st, stmt_idx, r), "IncorrectLocationException")
         ELSE AddSuccessor(NoteNli(NoteCopy(acc), st, stmt_idx, r), StateCopy(st, acc),
                           r.addr, "true", "Ijk_Boring", "jump")
    ELSE AddSuccessor(NoteCopy(acc), StateCopy(st, acc), pair.target, pair.condition,
                      "Ijk_Boring", "jump")

\* lines 166-172: one successor per (target, condition); an absent target is
\* the next linear instruction
JumpExit(st, acc, stmt_idx, pair, r) ==
    IF pair.target = NoTarget
    THEN IF ~r.ok THEN Raise(NoteNli(acc, st, stmt_idx, r), "IncorrectLocationException")
         ELSE AddSuccessor(NoteNli(NoteCopy(acc), st, stmt_idx, r), StateCopy(st, acc),
                           r.addr, pair.condition, "Ijk_Boring", "jump")
    ELSE AddSuccessor(NoteCopy(acc), StateCopy(st, acc), pair.target, pair.condition,
                      "Ijk_Boring", "jump")

RECURSIVE JumpExits(_, _, _, _, _)
JumpExits(st, acc, stmt_idx, targets, i) ==
    IF i > Len(targets) \/ acc.raised # "None" THEN acc
    ELSE JumpExits(st, JumpExit(st, acc, stmt_idx, targets[i],
                                GetNextLinearInstruction(st, stmt_idx)),
                   stmt_idx, targets, i + 1)

\* mutant: the jmp exit does not end the block
HandleJump_Continue(st, acc, stmt_idx, stmt) ==
    [acc |-> JumpExits(st, acc, stmt_idx, stmt.targets, 1), terminate |-> FALSE]

\* lines 164-173: add jmp exit
HandleJump(st, acc, stmt_idx, stmt) ==
    [acc |-> JumpExits(st, acc, stmt_idx, stmt.targets, 1), terminate |-> TRUE]

\* mutant: the accumulator is marked processed before the successor is added
ReturnExit_FlagFirst(st, acc, r) ==
    IF ~r.ok
    THEN [acc |-> Raise(acc, "SimEmptyCallStackError"), terminate |-> TRUE]
    ELSE [acc |-> AddSuccessor([acc EXCEPT !.processed = TRUE], r.state,
                               TopFrame(st).ret_addr, "true", "Ijk_Ret", "return"),
          terminate |-> TRUE]

\* lines 178-183 after prepare_return_state
ReturnExit(st, acc, r) ==
    IF ~r.ok
    THEN [acc |-> Raise(acc, "SimEmptyCallStackError"), terminate |-> TRUE]
    ELSE [acc |-> [AddSuccessor(acc, r.state, TopFrame(st).ret_addr, "true",
                                "Ijk_Ret", "return")
                     EXCEPT !.processed = TRUE],
          terminate |-> TRUE]

\* lines 175-183: add return exit
HandleReturn(st, acc, stmt_idx, stmt) ==
    ReturnExit(st, NoteCopy(acc),
               PrepareReturnState(StateCopy(st, acc),
                                  IF stmt.kind = "return" THEN stmt.value ELSE NoneVal))

\* mutant: a statement whose translation fails ends the block
HandleStatement_Abort(st, acc, stmt_idx, stmt) ==
    IF stmt.kind = "untranslatable" THEN [acc |-> acc, terminate |-> TRUE]
    ELSE IF stmt.kind = "invoke" THEN HandleInvoke(st, acc, stmt_idx, stmt)
    ELSE IF stmt.targets # NoTargets THEN HandleJump(st, acc, stmt_idx, stmt)
    ELSE IF stmt.kind \in {"return", "returnvoid"} THEN HandleReturn(st, acc, stmt_idx, stmt)
    ELSE [acc |-> acc, terminate |-> FALSE]

\* lines 130-187; a statement whose translation fails is skipped (132-137)
HandleStatement(st, acc, stmt_idx, stmt) ==
    IF stmt.kind = "untranslatable" THEN [acc |-> acc, terminate |-> FALSE]
    ELSE IF stmt.kind = "invoke" THEN HandleInvoke(st, acc, stmt_idx, stmt)
    ELSE IF stmt.targets # NoTargets THEN HandleJump(st, acc, stmt_idx, stmt)
    ELSE IF stmt.kind \in {"return", "returnvoid"} THEN HandleReturn(st, acc, stmt_idx, stmt)
    ELSE [acc |-> acc, terminate |-> FALSE]

\* mutant: running off the end of the method is tolerated silently
LinearExit_Silent(st, acc, last, r) ==
    IF ~r.ok THEN NoteNli(acc, st, last, r)
    ELSE AddSuccessor(NoteNli(NoteCopy(acc), st, last, r), StateCopy(st, acc), r.addr, "true",
                      "Ijk_Boring", "linear")

LinearExit(st, acc, last, r) ==
    IF ~r.ok THEN Raise(NoteNli(acc, st, last, r), "IncorrectLocationException")
    ELSE AddSuccessor(NoteNli(NoteCopy(acc), st, last, r), StateCopy(st, acc), r.addr, "true",
                      "Ijk_Boring", "linear")

\* mutant: the next address is computed from the start index, not the last statement
AdvanceLinearly_FromStart(st, acc, starting_stmt_idx, last) ==
    IF last < starting_stmt_idx
    THEN Raise(acc, "UnboundLocalError")
    ELSE LinearExit(st, acc, starting_stmt_idx,
                    GetNextLinearInstruction(st, starting_stmt_idx))

\* lines 120-128: the for loop's else clause, run when no statement terminated
\* the block; last is the index of the last statement handled, and stmt is
\* unbound when the loop body never ran
AdvanceLinearly(st, acc, starting_stmt_idx, last) ==
    IF last < starting_stmt_idx
    THEN Raise(acc, "UnboundLocalError")
    ELSE LinearExit(st, acc, last, GetNextLinearInstruction(st, last))

RECURSIVE HandleBlock(_, _, _, _, _)
RECURSIVE AfterStatement(_, _, _, _, _)

\* lines 113-119: the for loop over block.statements[starting_stmt_idx:]
HandleBlock(st, acc, block, starting_stmt_idx, stmt_idx) ==
    IF stmt_idx >= Len(block)
    THEN AdvanceLinearly(st, acc, starting_stmt_idx, stmt_idx - 1)
    ELSE AfterStatement(st, HandleStatement(st, [acc EXCEPT !.handled = Append(@, stmt_idx)],
                                            stmt_idx, block[stmt_idx + 1]),
                        block, starting_stmt_idx, stmt_idx)

\* lines 118-119: if terminate: break
AfterStatement(st, h, block, starting_stmt_idx, stmt_idx) ==
    IF h.acc.raised # "None" \/ h.terminate THEN h.acc
    ELSE HandleBlock(st, h.acc, block, starting_stmt_idx, stmt_idx + 1)

\* lines 94-104: the method is not loaded, a return without value is simulated
UnloadedExit(st, r) ==
    IF ~r.ok THEN Raise(NoteCopy(EmptyAcc), "SimEmptyCallStackError")
    ELSE [AddSuccessor(NoteCopy(EmptyAcc), r.state, TopFrame(st).ret_addr, "true", "Ijk_Ret",
                       "unloaded")
            EXCEPT !.processed = TRUE]

\* mutant: the accumulator is marked processed also when the block failed
MarkProcessed_Always(acc) == [acc EXCEPT !.processed = TRUE]

\* line 110
MarkProcessed(acc) ==
    IF acc.raised # "None" THEN acc ELSE [acc EXCEPT !.processed = TRUE]

\* procedure_engine._process: the substitute runs and returns its result to
\* the caller of the hooked method
ProcedureExit(st, r) ==
    IF ~r.ok THEN Raise(NoteCopy(EmptyAcc), "SimEmptyCallStackError")
    ELSE [AddSuccessor(NoteCopy(EmptyAcc), r.state, TopFrame(st).ret_addr, "true", "Ijk_Ret",
                       "procedure")
            EXCEPT !.processed = TRUE]

\* lines 72-110 when no SimProcedure takes over (lines 79-83 fall through)
Process(st) ==
    IF IsTerminator(st.ip) THEN [EmptyAcc EXCEPT !.processed = TRUE]
    ELSE IF st.ip.method \notin Methods
    THEN UnloadedExit(st, PrepareReturnState(StateCopy(st, EmptyAcc), NoneVal))
    ELSE IF st.ip.block_idx >= Len(Blocks(st.ip.method))
    THEN Raise(EmptyAcc, "IndexError")
    ELSE MarkProcessed(HandleBlock(st, EmptyAcc, Blocks(st.ip.method)[st.ip.block_idx + 1],
                                   st.ip.stmt_idx, st.ip.stmt_idx))

\* lines 72-110: the terminator test, the SimProcedure hook with the result
\* hook of its lookup, and the interpretation of the block
ProcessHooked(st, hook) ==
    IF ~IsTerminator(st.ip) /\ hook.proc # NoProcedure
    THEN ProcedureExit(st, PrepareReturnState(StateCopy(st, EmptyAcc), ObjA))
    ELSE Process(st)

----------------------------------------------------------------------------
(* Initial states and inputs *)

SootMethods == Methods \ NativeMethods

\* addresses of the loaded program; an empty block is entered at index 0
ProgramAddrs ==
    {SootAddressDescriptor(m, b, s) : m \in SootMethods, b \in 0..2, s \in 0..2} \cap
    {a \in [method : SootMethods, block_idx : 0..2, stmt_idx : 0..2] :
        /\ a.block_idx < Len(Blocks(a.method))
        /\ \/ a.stmt_idx < Len(Blocks(a.method)[a.block_idx + 1])
           \/ a.stmt_idx = 0}

LibraryMethods == {"Lib", "LibP", "LibQ"}

StartAddrs ==
    ProgramAddrs \cup {SootAddressDescriptor("Lib", 0, 0), SootAddressDescriptor("LibP", 0, 0),
                       SootAddressDescriptor("LibQ", 0, 0), Terminator}

CallerFrame == [ret_addr |-> SootAddressDescriptor("A", 0, 1),
                invoke_return_variable |-> LocalR0, procedure_data |-> "pd"]

InitStates ==
    {MkState(a, <<BaseFrame>>, <<EmptyScope>>) : a \in StartAddrs} \cup
    {MkState(a, <<BaseFrame, CallerFrame>>, <<EmptyScope, EmptyScope>>) : a \in StartAddrs}

ArgLists == {<<>>, <<ThisArg, ParamArg>>}

RetAddrs == {SootAddressDescriptor("D", 1, 0)}

RetVars == {NoneVar, LocalS0}

RetValues == {NoneVal, ObjA}

RawValues == {[t |-> "bv32", v |-> 7], [t |-> "bv64", v |-> 65836]}

OpRec(name, depth0, scopes0, ret_var, ret_value, raw) ==
    [name |-> name, roundtrip |-> FALSE, depth0 |-> depth0, scopes0 |-> scopes0,
     ret_var |-> ret_var, ret_value |-> ret_value, raw |-> raw]

Init ==
    /\ state \in InitStates
    /\ successors = <<>>
    /\ processed = FALSE
    /\ raised = "None"
    /\ handled = <<>>
    /\ nli = <<>>
    /\ op = [name |-> "init", roundtrip |-> FALSE, depth0 |-> 0, scopes0 |-> 0,
             ret_var |-> NoneVar, ret_value |-> NoneVal, raw |-> NoneVal]
    /\ api = 0
    /\ calls = <<>>
    /\ project \in [use_sim_procedures : BOOLEAN, sim_procedures : {{}}]
    /\ lookup = [addr |-> NoTarget, proc |-> NoProcedure, cache0 |-> {}, made |-> {}]

ClearAcc ==
    /\ successors' = <<>>
    /\ processed' = FALSE
    /\ handled' = <<>>

\* an operation that makes no lookup
NoLookupMade ==
    /\ lookup' = [addr |-> NoTarget, proc |-> NoProcedure, cache0 |-> project.sim_procedures,
                  made |-> lookup.made]
    /\ UNCHANGED project

----------------------------------------------------------------------------
(* Actions *)

\* bookkeeping of the calls in progress: the address of the invoke statement
\* (NoTarget for a frame pushed by a direct setup_callsite) and the call-stack
\* depth before the call
PushCall(cs, site, depth) == Append(cs, [site |-> site, depth |-> depth])

PopCall(cs) == IF cs = <<>> THEN cs ELSE SubSeq(cs, 1, Len(cs) - 1)

Accumulate(acc) ==
    /\ successors' = acc.successors
    /\ processed' = acc.processed
    /\ raised' = acc.raised
    /\ handled' = acc.handled
    /\ nli' = acc.nli

\* the effect of a lookup with result r on the cache and on the record of lookups
Looked(addr, r) ==
    /\ project' = r.project
    /\ lookup' = [addr |-> addr, proc |-> r.proc, cache0 |-> project.sim_procedures,
                  made |-> IF r.created
                           THEN lookup.made \cup {[addr |-> addr, proc |-> r.proc]}
                           ELSE lookup.made]

ProcessWith(hook) ==
    /\ Accumulate(ProcessHooked(state, hook))
    /\ Looked(IF project.use_sim_procedures /\ ~IsTerminator(state.ip)
              THEN state.ip ELSE NoTarget, hook)

\* SimEngineSoot._process on the current state (_check: the ip is a Soot address)
DoProcess ==
    /\ ~IsNativeAddr(state.ip)
    /\ ProcessWith(IF project.use_sim_procedures /\ ~IsTerminator(state.ip)
                   THEN GetSimProcedure(project, state.ip, Cardinality(lookup.made) + 1)
                   ELSE NoLookup(project))
    /\ op' = OpRec("process", Depth(state), Scopes(state), NoneVar, NoneVal, NoneVal)
    /\ UNCHANGED <<state, api, calls>>

\* a direct lookup of the substitute procedure of the current address or of the
\* next address of its method, for a state in library code
DoGetSimProcedure ==
    /\ state.ip.method \in LibraryMethods
    /\ \E addr \in {state.ip, [state.ip EXCEPT !.stmt_idx = @ + 1]} :
          Looked(addr, GetSimProcedure(project, addr, Cardinality(lookup.made) + 1))
    /\ op' = OpRec("get_sim_procedure", Depth(state), Scopes(state), NoneVar, NoneVal, NoneVal)
    /\ ClearAcc
    /\ raised' = "None"
    /\ nli' = <<>>
    /\ UNCHANGED <<state, calls, api>>

\* the caller of the engine continues with one of the successors
TakeSuccessor ==
    /\ raised = "None"
    /\ \E i \in 1..Len(successors) :
          /\ state' = [successors[i].state EXCEPT !.obj = 0]
          /\ calls' = IF successors[i].jumpkind = "Ijk_Call"
                       THEN PushCall(calls, [state.ip EXCEPT !.stmt_idx = successors[i].stmt_idx],
                                     Depth(state))
                       ELSE IF successors[i].jumpkind = "Ijk_Ret" THEN PopCall(calls)
                       ELSE calls
    /\ ClearAcc
    /\ raised' = "None"
    /\ nli' = <<>>
    /\ op' = OpRec("successor", Depth(state), Scopes(state), NoneVar, NoneVal, NoneVal)
    /\ NoLookupMade
    /\ UNCHANGED api

DoSetupCallsite ==
    /\ api < MaxApiCalls
    /\ api' = api + 1
    /\ ~IsNativeAddr(state.ip)
    /\ \E args \in ArgLists, ret_addr \in RetAddrs, ret_var \in RetVars :
          /\ state' = SetupCallsite(state, args, ret_addr, ret_var)
          /\ op' = OpRec("setup_callsite", Depth(state), Scopes(state), ret_var, NoneVal, NoneVal)
    /\ calls' = PushCall(calls, NoTarget, Depth(state))
    /\ NoLookupMade
    /\ ClearAcc
    /\ raised' = "None"
    /\ nli' = <<>>

DoPrepareReturnState ==
    /\ api < MaxApiCalls
    /\ api' = api + 1
    /\ ~IsNativeAddr(state.ip)
    /\ \E ret_value \in RetValues :
          LET r == PrepareReturnState(state, ret_value)
          IN  /\ state' = r.state
              /\ calls' = IF r.ok THEN PopCall(calls) ELSE calls
              /\ raised' = IF r.ok THEN "None" ELSE "SimEmptyCallStackError"
              /\ op' = IF op.name = "setup_callsite"
                       THEN [OpRec("prepare_return_state", op.depth0, op.scopes0, op.ret_var,
                                   ret_value, NoneVal) EXCEPT !.roundtrip = TRUE]
                       ELSE OpRec("prepare_return_state", Depth(state), Scopes(state),
                                  TopFrame(state).invoke_return_variable, ret_value, NoneVal)
    /\ ClearAcc
    /\ nli' = <<>>
    /\ NoLookupMade

\* the hook at the return of a native function; the native code left ret_symbol
\* in the return register and local references in the reference table
DoPrepareNativeReturnState ==
    /\ IsNativeAddr(state.ip)
    /\ raised = "None"
    /\ \E ret_symbol \in RawValues, refs \in {{}, {1}} :
          LET native_state == [state EXCEPT !.jni_local = refs]
              r == PrepareNativeReturnState(native_state, ret_symbol)
          IN  /\ state' = IF r.ok THEN r.state ELSE state
              /\ calls' = IF r.ok THEN PopCall(calls) ELSE calls
              /\ raised' = IF r.ok THEN "None" ELSE "SimEmptyCallStackError"
              /\ op' = OpRec("prepare_native_return_state", Depth(state), Scopes(state),
                             TopFrame(state).invoke_return_variable, r.ret_value, ret_symbol)
    /\ ClearAcc
    /\ nli' = <<>>
    /\ NoLookupMade
    /\ UNCHANGED api

DoGetNextLinearInstruction ==
    /\ api < MaxApiCalls
    /\ api' = api + 1
    /\ state.ip \in ProgramAddrs
    /\ \E stmt_idx \in 0..2 :
          /\ stmt_idx < Len(Blocks(state.ip.method)[state.ip.block_idx + 1])
          /\ LET r == GetNextLinearInstruction(state, stmt_idx)
             IN  /\ nli' = NoteNli(EmptyAcc, state, stmt_idx, r).nli
                 /\ raised' = IF r.ok THEN "None" ELSE "IncorrectLocationException"
    /\ op' = OpRec("get_next_linear_instruction", Depth(state), Scopes(state), NoneVar,
                   NoneVal, NoneVal)
    /\ ClearAcc
    /\ NoLookupMade
    /\ UNCHANGED <<state, calls>>

Next ==
    \/ DoProcess
    \/ TakeSuccessor
    \/ DoSetupCallsite
    \/ DoPrepareReturnState
    \/ DoPrepareNativeReturnState
    \/ DoGetNextLinearInstruction
    \/ DoGetSimProcedure

Spec == Init /\ [][Next]_vars

----------------------------------------------------------------------------
(* Properties *)

\* the block the current address names, for an address of the loaded program
CurrentBlock == Blocks(state.ip.method)[state.ip.block_idx + 1]

Processed == op.name = "process" /\ state.ip \in ProgramAddrs

NoControlEffect(stmt) == stmt.kind \in {"assign", "untranslatable"}

IsReturn(stmt) == stmt.kind \in {"return", "returnvoid"}

\* _process started at the current address reaches statement i of the block:
\* every statement from the start index up to i has no control effect
Reaches(i) ==
    /\ state.ip.stmt_idx <= i
    /\ i < Len(CurrentBlock)
    /\ \A j \in state.ip.stmt_idx..(i - 1) : NoControlEffect(CurrentBlock[j + 1])

\* a next linear instruction exists after statement i of the current block
HasNextLinear(i) ==
    \/ i + 1 < Len(CurrentBlock)
    \/ state.ip.block_idx + 1 < Len(Blocks(state.ip.method))

HandledUpTo(i) ==
    /\ Len(handled) = i - state.ip.stmt_idx + 1
    /\ \A k \in 1..Len(handled) : handled[k] = state.ip.stmt_idx + k - 1

OneCallSuccessor ==
    /\ raised = "None"
    /\ Len(successors) = 1
    /\ successors[1].jumpkind = "Ijk_Call"
    /\ successors[1].guard = "true"

\* C1 as stated: an invoke statement that _process reaches, at any position of
\* any block, yields exactly one successor, of kind call with a true guard, and
\* no statement after the invoke is handled in that step.
C1_InvokeAnywhere ==
    Processed =>
        \A i \in 0..(Len(CurrentBlock) - 1) :
            (Reaches(i) /\ CurrentBlock[i + 1].kind = "invoke")
                => (OneCallSuccessor /\ HandledUpTo(i))

\* C1 amended: an invoke statement that _process reaches and that has a next
\* linear instruction (it is not the last statement of the method's last block)
\* yields exactly one successor, of kind call with a true guard, and no
\* statement after the invoke is handled in that step.
C1_InvokeWithReturnAddress ==
    Processed =>
        \A i \in 0..(Len(CurrentBlock) - 1) :
            (Reaches(i) /\ CurrentBlock[i + 1].kind = "invoke" /\ HasNextLinear(i))
                => (OneCallSuccessor /\ HandledUpTo(i))

\* an invoke in the middle of a block, reached over a statement, with a
\* statement after it that is not handled
C1_Witness ==
    /\ Processed
    /\ Reaches(1)
    /\ state.ip.stmt_idx = 0
    /\ Len(CurrentBlock) = 3
    /\ CurrentBlock[2].kind = "invoke"
    /\ OneCallSuccessor
    /\ handled = <<0, 1>>

\* C2 as stated: a return statement reached with an empty call stack (only the
\* bottom frame) leaves exactly one successor of kind exit, the accumulator is
\* marked processed and no later statement of the block is handled.
C2_ExitOnEmptyCallStack ==
    (Processed /\ Depth(state) = 1) =>
        \A i \in 0..(Len(CurrentBlock) - 1) :
            (Reaches(i) /\ IsReturn(CurrentBlock[i + 1]))
                => /\ raised = "None"
                   /\ Len(successors) = 1
                   /\ successors[1].jumpkind = "Ijk_Exit"
                   /\ processed
                   /\ HandledUpTo(i)

\* the scenario of C3: a method whose only block holds two statements without
\* control effect
TwoPlainStatements ==
    /\ Len(Blocks(state.ip.method)) = 1
    /\ Len(CurrentBlock) = 2
    /\ CurrentBlock[1].kind = "assign"
    /\ CurrentBlock[2].kind = "assign"

\* C3 as stated: _process at (M,0,0) yields one successor at (M,0,1) of kind
\* branch, and _process at (M,0,1) fails with IncorrectLocation.
C3_StepPerStatement ==
    (Processed /\ TwoPlainStatements) =>
        /\ state.ip.stmt_idx = 0 =>
              /\ raised = "None"
              /\ Len(successors) = 1
              /\ successors[1].target = SootAddressDescriptor(state.ip.method, 0, 1)
              /\ successors[1].jumpkind = "Ijk_Boring"
        /\ state.ip.stmt_idx = 1 => raised = "IncorrectLocationException"

\* C3 amended: _process at (M,0,0) handles both statements in one step and then
\* fails with IncorrectLocation without a successor; _process at (M,0,1) fails
\* with IncorrectLocation as well.
C3_WholeBlockPerStep ==
    (Processed /\ TwoPlainStatements) =>
        /\ raised = "IncorrectLocationException"
        /\ successors = <<>>
        /\ ~processed
        /\ state.ip.stmt_idx = 0 => handled = <<0, 1>>
        /\ state.ip.stmt_idx = 1 => handled = <<1>>

C3_Witness ==
    /\ Processed
    /\ TwoPlainStatements
    /\ state.ip.stmt_idx = 0
    /\ handled = <<0, 1>>
    /\ raised = "IncorrectLocationException"

\* C4: a statement whose translation fails adds no successor and does not end
\* the block: the next statement of the block is handled in the same step; a
\* block [untranslatable, return] processed from index 0 yields exactly what
\* the return processed alone yields, which in a state with a caller frame is
\* the one successor of the return.
C4_UntranslatableSkipped ==
    Processed =>
        /\ \A k \in 1..Len(handled) :
              CurrentBlock[handled[k] + 1].kind = "untranslatable" =>
                  /\ \A n \in 1..Len(successors) :
                        (successors[n].stmt_idx = handled[k]) => successors[n].site = "linear"
                  /\ handled[k] + 1 < Len(CurrentBlock) =>
                        /\ k < Len(handled)
                        /\ handled[k + 1] = handled[k] + 1
        /\ ( /\ Len(CurrentBlock) = 2
             /\ CurrentBlock[1].kind = "untranslatable"
             /\ IsReturn(CurrentBlock[2])
             /\ state.ip.stmt_idx = 0 )
           => /\ successors = Process([state EXCEPT !.ip.stmt_idx = 1]).successors
              /\ raised = Process([state EXCEPT !.ip.stmt_idx = 1]).raised
              /\ processed = Process([state EXCEPT !.ip.stmt_idx = 1]).processed
        /\ ( /\ Len(CurrentBlock) = 2
             /\ CurrentBlock[1].kind = "untranslatable"
             /\ IsReturn(CurrentBlock[2])
             /\ state.ip.stmt_idx = 0
             /\ Depth(state) > 1 )
           => /\ raised = "None"
              /\ Len(successors) = 1
              /\ successors[1].jumpkind = "Ijk_Ret"
              /\ successors[1].stmt_idx = 1
              /\ successors[1].target = TopFrame(state).ret_addr

C4_Witness ==
    /\ Processed
    /\ Len(CurrentBlock) = 2
    /\ CurrentBlock[1].kind = "untranslatable"
    /\ IsReturn(CurrentBlock[2])
    /\ handled = <<0, 1>>
    /\ Len(successors) = 1
    /\ successors[1].jumpkind = "Ijk_Ret"

\* C5: setup_callsite followed by prepare_return_state(v) on the same state
\* restores the call-stack depth and the number of memory scopes, and a value v
\* returned to a return slot is stored at that slot in the caller's scope.
C5_CallReturnRoundTrip ==
    (op.name = "prepare_return_state" /\ op.roundtrip) =>
        /\ raised = "None"
        /\ Depth(state) = op.depth0
        /\ Scopes(state) = op.scopes0
        /\ (op.ret_var # NoneVar /\ op.ret_value # NoneVal)
              => Load(state, op.ret_var.name) = op.ret_value

C5_Witness ==
    /\ op.name = "prepare_return_state"
    /\ op.roundtrip
    /\ op.ret_var # NoneVar
    /\ op.ret_value # NoneVal
    /\ Depth(state) = 2
    /\ TopFrame(state).invoke_return_variable # op.ret_var
    /\ Load(state, op.ret_var.name) = op.ret_value

\* C6: the next linear instruction of (method, b, s) is (method, b, s+1) when
\* s+1 is inside block b, otherwise (method, b+1, 0) when block b+1 exists,
\* otherwise the computation fails with IncorrectLocation and gives no address.
C6_NextLinearInstruction ==
    \A k \in 1..Len(nli) :
        IF nli[k].stmt_idx + 1 < Len(Blocks(nli[k].method)[nli[k].block_idx + 1])
        THEN /\ nli[k].ok
             /\ nli[k].addr = [method |-> nli[k].method, block_idx |-> nli[k].block_idx,
                               stmt_idx |-> nli[k].stmt_idx + 1]
        ELSE IF nli[k].block_idx + 1 < Len(Blocks(nli[k].method))
             THEN /\ nli[k].ok
                  /\ nli[k].addr = [method |-> nli[k].method,
                                    block_idx |-> nli[k].block_idx + 1, stmt_idx |-> 0]
             ELSE /\ ~nli[k].ok
                  /\ nli[k].addr = NoTarget
                  /\ k = Len(nli)
                  /\ raised = "IncorrectLocationException"

\* the last statement of a block that has a following block
C6_Witness ==
    /\ op.name = "get_next_linear_instruction"
    /\ Len(nli) = 1
    /\ nli[1].stmt_idx = 1
    /\ nli[1].ok
    /\ nli[1].addr = SootAddressDescriptor(nli[1].method, nli[1].block_idx + 1, 0)

NativeReturned == op.name = "prepare_native_return_state" /\ raised = "None"

\* C7 as stated: every return of a native call whose declared return type is
\* primitive delivers the raw return value cast to that type, also when the
\* call has no return destination slot.
C7_CastForDeclaredType ==
    (NativeReturned /\ state.native_ret_type \in PrimitiveTypes) =>
        op.ret_value = CastPrimitive(op.raw, state.native_ret_type)

\* C7 amended: every return of a native call that has a return destination
\* slot of primitive type delivers the raw return value cast to that type's
\* width, whatever the width of the raw value, and stores it at the slot; a
\* call without a return destination slot delivers no value.
C7_CastForReturnSlot ==
    NativeReturned =>
        /\ (op.ret_var # NoneVar /\ op.ret_var.type \in PrimitiveTypes) =>
              /\ op.ret_value.t = op.ret_var.type
              /\ op.ret_value.v = op.raw.v % (2 ^ TypeBits(op.ret_var.type))
              /\ Load(state, op.ret_var.name) = op.ret_value
        /\ op.ret_var = NoneVar => op.ret_value = NoneVal

\* a raw value wider than the declared type is cut to its width
C7_Witness ==
    /\ NativeReturned
    /\ op.ret_var.type = "byte"
    /\ op.raw.v >= 256
    /\ Load(state, op.ret_var.name).v = op.raw.v % 256

\* C8: in every reachable state, the input state and every emitted successor,
\* the call-stack depth equals the number of memory scopes.
C8_DepthEqualsScopes ==
    /\ Depth(state) = Scopes(state)
    /\ \A n \in 1..Len(successors) :
          Depth(successors[n].state) = Scopes(successors[n].state)

\* a return successor taken after a call was set up on top of a caller frame
C8_Witness ==
    /\ op.name = "successor"
    /\ Depth(state) = 2
    /\ Scopes(state) = 2
    /\ state.memory[2]["r0"] = ObjB

\* C9: after a _process call that completes on a state that is not at the
\* terminator, all successors carry one transition kind; a linear-advance
\* successor is the only successor of its step, and a call, return or exit
\* successor is the only successor of its step.
C9_OneTransitionKind ==
    (op.name = "process" /\ raised = "None" /\ ~IsTerminator(state.ip)) =>
        \A n \in 1..Len(successors) :
            /\ successors[n].jumpkind \in {"Ijk_Call", "Ijk_Boring", "Ijk_Ret", "Ijk_Exit"}
            /\ \A m \in 1..Len(successors) : successors[m].jumpkind = successors[n].jumpkind
            /\ successors[n].site = "linear" => Len(successors) = 1
            /\ successors[n].jumpkind # "Ijk_Boring" => Len(successors) = 1

\* a two-way branch in the middle of a block
C9_Witness ==
    /\ Processed
    /\ raised = "None"
    /\ Len(successors) = 2
    /\ successors[1].site = "jump"
    /\ successors[2].site = "jump"
    /\ handled[Len(handled)] + 1 < Len(CurrentBlock)

ValidIndex(a) ==
    /\ a.method \in Methods
    /\ a.block_idx >= 0
    /\ a.block_idx < Len(Blocks(a.method))
    /\ a.stmt_idx < Len(Blocks(a.method)[a.block_idx + 1])

StartsInsideBlock == Processed /\ state.ip.stmt_idx < Len(CurrentBlock)

\* C10 as stated: from a state whose statement index is inside its block, every
\* address the dispatcher computes (next linear addresses and the callee entry
\* of an invoke) has a statement index below the length of the block it names.
C10_ComputedIndexInsideBlock ==
    StartsInsideBlock =>
        /\ \A k \in 1..Len(nli) : nli[k].ok => ValidIndex(nli[k].addr)
        /\ \A n \in 1..Len(successors) :
              (successors[n].site = "invoke" /\ ~IsNativeAddr(successors[n].target))
                  => ValidIndex(successors[n].target)

\* C10 amended: every next linear address the dispatcher computes names an
\* existing block of the same method, with a statement index below that
\* block's length unless it enters an empty block at index 0; the callee entry
\* of a non-native invoke is (callee, 0, 0), inside its block when the callee is
\* loaded and its first block is not empty.
C10_ComputedIndexUnlessEmptyBlock ==
    StartsInsideBlock =>
        /\ \A k \in 1..Len(nli) :
              nli[k].ok =>
                  /\ nli[k].addr.method = state.ip.method
                  /\ nli[k].addr.block_idx < Len(Blocks(state.ip.method))
                  /\ \/ ValidIndex(nli[k].addr)
                     \/ /\ nli[k].addr.stmt_idx = 0
                        /\ Len(Blocks(state.ip.method)[nli[k].addr.block_idx + 1]) = 0
        /\ \A n \in 1..Len(successors) :
              (successors[n].site = "invoke" /\ ~IsNativeAddr(successors[n].target))
                  => /\ successors[n].target.block_idx = 0
                     /\ successors[n].target.stmt_idx = 0
                     /\ ( /\ successors[n].target.method \in Methods
                          /\ Len(Blocks(successors[n].target.method)) > 0
                          /\ Len(Blocks(successors[n].target.method)[1]) > 0 )
                        => ValidIndex(successors[n].target)

\* the last statement of a block advances into a block that is not empty
C10_Witness ==
    /\ StartsInsideBlock
    /\ Len(nli) = 1
    /\ nli[1].ok
    /\ nli[1].addr.block_idx = state.ip.block_idx + 1
    /\ ValidIndex(nli[1].addr)
    /\ Len(successors) = 1
    /\ successors[1].site = "linear"

\* C11: within one _process call no successor is added once the processed flag
\* is true: every successor was added while the flag was false; a state at the
\* terminator leaves the flag set and no successor; a return statement leaves
\* the flag set and its single successor, added before the flag was set.
C11_NoSuccessorAfterFlag ==
    op.name = "process" =>
        /\ \A n \in 1..Len(successors) : ~successors[n].flag
        /\ IsTerminator(state.ip) => (processed /\ successors = <<>> /\ raised = "None")
        /\ \A n \in 1..Len(successors) :
              successors[n].site = "return" =>
                  /\ processed
                  /\ Len(successors) = 1
                  /\ IsReturn(CurrentBlock[successors[n].stmt_idx + 1])

\* a return reached over an earlier statement of its block
C11_Witness ==
    /\ Processed
    /\ processed
    /\ Len(handled) = 2
    /\ Len(successors) = 1
    /\ successors[1].site = "return"
    /\ ~successors[1].flag

\* the statements from the start index to the end of the current block are at
\* least one and none of them is an invoke, a branch or a return
RunsToBlockEnd ==
    /\ Processed
    /\ state.ip.stmt_idx < Len(CurrentBlock)
    /\ \A j \in state.ip.stmt_idx..(Len(CurrentBlock) - 1) : NoControlEffect(CurrentBlock[j + 1])

\* C12: a _process call that runs a block from its start index to the end
\* without meeting an invoke, branch or return adds exactly one successor, of
\* kind branch with a true guard, at the next linear address after the block's
\* last statement, which is the first statement of the next block; when the
\* method has no next block it fails with IncorrectLocation without a successor.
C12_LinearAdvanceFromLastStatement ==
    RunsToBlockEnd =>
        IF state.ip.block_idx + 1 < Len(Blocks(state.ip.method))
        THEN /\ raised = "None"
             /\ processed
             /\ Len(successors) = 1
             /\ successors[1].jumpkind = "Ijk_Boring"
             /\ successors[1].guard = "true"
             /\ successors[1].target =
                   SootAddressDescriptor(state.ip.method, state.ip.block_idx + 1, 0)
             /\ successors[1].state.ip = successors[1].target
             /\ successors[1].stmt_idx = Len(CurrentBlock) - 1
        ELSE /\ raised = "IncorrectLocationException"
             /\ successors = <<>>

\* a block of three statements run from index 0: the successor is at the next
\* block, not at index 1 of the same block
C12_Witness ==
    /\ RunsToBlockEnd
    /\ state.ip.stmt_idx = 0
    /\ handled = <<0, 1, 2>>
    /\ Len(successors) = 1
    /\ successors[1].target = SootAddressDescriptor(state.ip.method, state.ip.block_idx + 1, 0)
    /\ successors[1].site = "linear"

\* the argument list C13 expects for call arguments args of a native method
ExpectedNativeArgs(args, java_method) ==
    <<JniEnv, IF Head(args) # NoneArg THEN Head(args) ELSE ClassRef(ClassName(java_method))>>
        \o Tail(args)

\* C13: the successor of a native invoke with call arguments [r, a1, ..., an]
\* carries the native argument list [environment handle, ref, a1, ..., an], ref
\* being r for an instance call and the initialized class reference for a
\* static call; the receiver appears once and a1..an keep their order with
\* nothing between them.
C13_NativeArgumentList ==
    Processed =>
        \A n \in 1..Len(successors) :
            (successors[n].site = "invoke" /\ IsNativeAddr(successors[n].target)) =>
                LET stmt == CurrentBlock[successors[n].stmt_idx + 1]
                IN  /\ successors[n].state.native_args = ExpectedNativeArgs(stmt.args, stmt.callee)
                    /\ Head(stmt.args) = NoneArg =>
                          ClassName(stmt.callee) \in successors[n].state.initialized

\* C14: a _process call on a block without statements, or from a start index
\* that leaves no statement to handle, stops normally: no error, no successor,
\* the accumulator marked processed.
C14_EmptyBlockStopsNormally ==
    (Processed /\ state.ip.stmt_idx >= Len(CurrentBlock)) =>
        /\ raised = "None"
        /\ successors = <<>>
        /\ processed

IsBranch(stmt) == stmt.targets # NoTargets

\* the next linear address after statement i of the current block, when it exists
NextLinearAfter(i) ==
    IF i + 1 < Len(CurrentBlock)
    THEN SootAddressDescriptor(state.ip.method, state.ip.block_idx, i + 1)
    ELSE SootAddressDescriptor(state.ip.method, state.ip.block_idx + 1, 0)

\* successor n is the one of pair n of the branch at statement i
BranchSuccessor(i, n) ==
    LET pair == CurrentBlock[i + 1].targets[n]
    IN  /\ successors[n].jumpkind = "Ijk_Boring"
        /\ successors[n].guard = pair.condition
        /\ successors[n].target =
              IF pair.target = NoTarget THEN NextLinearAfter(i) ELSE pair.target
        /\ successors[n].state.ip = successors[n].target
        /\ successors[n].stmt_idx = i

\* the pairs of the branch at statement i that come before its first pair
\* without a target
PairsBeforeAbsent(i) ==
    LET targets == CurrentBlock[i + 1].targets
    IN  Cardinality({n \in 1..Len(targets) :
                        \A k \in 1..n : targets[k].target # NoTarget})

\* C16 as stated: a branch statement with the pairs (t1,g1), ..., (tk,gk) that
\* _process reaches yields exactly k successors in that order, each of kind
\* branch with guard gi at ti, or at the next linear address after the branch
\* when ti is absent, and no statement after the branch is handled.
C16_OneSuccessorPerPair ==
    Processed =>
        \A i \in 0..(Len(CurrentBlock) - 1) :
            (Reaches(i) /\ IsBranch(CurrentBlock[i + 1])) =>
                /\ raised = "None"
                /\ Len(successors) = Len(CurrentBlock[i + 1].targets)
                /\ \A n \in 1..Len(successors) : BranchSuccessor(i, n)
                /\ HandledUpTo(i)

\* C16 amended: when the branch has a next linear address or no pair without
\* a target, it yields exactly k successors in that order, each of kind branch
\* with guard gi, unchanged, at ti or at the next linear address when ti is
\* absent; when a pair has no target and the branch is the last statement of
\* the method, the step fails with IncorrectLocation after the successors of
\* the pairs before that pair were added; in both cases no statement after the
\* branch is handled.
C16_OneSuccessorPerPairOrFailure ==
    Processed =>
        \A i \in 0..(Len(CurrentBlock) - 1) :
            (Reaches(i) /\ IsBranch(CurrentBlock[i + 1])) =>
                /\ HandledUpTo(i)
                /\ IF HasNextLinear(i) \/ PairsBeforeAbsent(i) = Len(CurrentBlock[i + 1].targets)
                   THEN /\ raised = "None"
                        /\ Len(successors) = Len(CurrentBlock[i + 1].targets)
                   ELSE /\ raised = "IncorrectLocationException"
                        /\ Len(successors) = PairsBeforeAbsent(i)
                /\ \A n \in 1..Len(successors) : BranchSuccessor(i, n)

\* a three-way branch with overlapping guards whose second target is absent
C16_Witness ==
    /\ Processed
    /\ raised = "None"
    /\ Len(successors) = 3
    /\ successors[1].guard = "c1"
    /\ successors[2].guard = "c1"
    /\ successors[3].guard = "c2"
    /\ successors[2].target = SootAddressDescriptor(state.ip.method, state.ip.block_idx + 1, 0)
    /\ \A n \in 1..3 : BranchSuccessor(0, n)

\* C17: every successor _process adds is a copy made during that call, not the
\* state the engine was handed, so the frame pushes and pops that distinguish
\* it were applied to the copy; no two successors of one step are the same
\* state object, and the input state keeps its address, call stack and scopes.
C17_SuccessorsAreFreshCopies ==
    op.name = "process" =>
        /\ state.obj = 0
        /\ Depth(state) = op.depth0
        /\ Scopes(state) = op.scopes0
        /\ \A n \in 1..Len(successors) :
              /\ successors[n].state.obj # state.obj
              /\ successors[n].state.obj > 0
              /\ \A m \in 1..Len(successors) :
                    m # n => successors[m].state.obj # successors[n].state.obj

\* a call successor: the frame and the scope were pushed on a copy
C17_Witness ==
    /\ Processed
    /\ Len(successors) = 1
    /\ successors[1].jumpkind = "Ijk_Call"
    /\ successors[1].state.obj = 1
    /\ Depth(successors[1].state) = Depth(state) + 1
    /\ Scopes(successors[1].state) = Scopes(state) + 1

\* the next linear address of a statement of the loaded program
NextLinearOf(a) ==
    IF a.stmt_idx + 1 < Len(Blocks(a.method)[a.block_idx + 1])
    THEN SootAddressDescriptor(a.method, a.block_idx, a.stmt_idx + 1)
    ELSE SootAddressDescriptor(a.method, a.block_idx + 1, 0)

\* the innermost call in progress was made by an invoke statement
ReturnsToInvoke == calls # <<>> /\ calls[Len(calls)].site # NoTarget

\* C18: calls and returns pair last in, first out over any sequence of steps:
\* the successor of a non-native invoke at (M,b,s) is at (callee,0,0), one frame
\* deeper, and its top frame saves the next linear address of (M,b,s); the
\* return statement that pops the frame of the innermost invoke in progress
\* adds its return successor at the next linear address of that invoke, with
\* the call-stack depth the state had before that invoke.
C18_CallsAndReturnsPair ==
    Processed =>
        \A n \in 1..Len(successors) :
            /\ (successors[n].site = "invoke" /\ ~IsNativeAddr(successors[n].target)) =>
                  /\ successors[n].target =
                        SootAddressDescriptor(CurrentBlock[successors[n].stmt_idx + 1].callee, 0, 0)
                  /\ successors[n].state.ip = successors[n].target
                  /\ Depth(successors[n].state) = Depth(state) + 1
                  /\ TopFrame(successors[n].state).ret_addr =
                        NextLinearOf([state.ip EXCEPT !.stmt_idx = successors[n].stmt_idx])
            /\ (successors[n].site = "return" /\ ReturnsToInvoke) =>
                  /\ successors[n].jumpkind = "Ijk_Ret"
                  /\ successors[n].target = NextLinearOf(calls[Len(calls)].site)
                  /\ successors[n].state.ip = successors[n].target
                  /\ Depth(successors[n].state) = calls[Len(calls)].depth

\* the return of an outer call after an inner invoke and return pair: M invokes
\* B, B invokes N, N returned, and B returns to the statement after M's invoke
C18_Witness ==
    /\ Processed
    /\ state.ip = SootAddressDescriptor("B", 0, 1)
    /\ Len(calls) = 1
    /\ calls[1].site = SootAddressDescriptor("M", 0, 0)
    /\ Load(state, "r0") = ObjB
    /\ Len(successors) = 1
    /\ successors[1].site = "return"
    /\ successors[1].target = SootAddressDescriptor("M", 0, 1)
    /\ Depth(successors[1].state) = calls[1].depth

\* the registry holds a substitute for Lang.valueOf(int,int), the method "LibP"
HasSubstitute(m) == m = "LibP"

CachedBefore(a) == \E e \in lookup.cache0 : e.addr = a

\* C19: a lookup of an address whose method is not in the registry returns
\* none and leaves the cache unchanged; the first lookup of a registered
\* address creates one instance and caches it under that address; a later
\* lookup of the address returns the cached instance and creates none; at most
\* one instance per address is ever created.
C19_OneInstancePerAddress ==
    /\ \A x, y \in lookup.made : x.addr = y.addr => x = y
    /\ lookup.made = project.sim_procedures
    /\ lookup.addr # NoTarget =>
          IF ~HasSubstitute(lookup.addr.method)
          THEN /\ lookup.proc = NoProcedure
               /\ project.sim_procedures = lookup.cache0
          ELSE IF ~CachedBefore(lookup.addr)
          THEN /\ lookup.proc # NoProcedure
               /\ \A e \in lookup.cache0 : e.proc # lookup.proc
               /\ project.sim_procedures =
                     lookup.cache0 \cup {[addr |-> lookup.addr, proc |-> lookup.proc]}
          ELSE /\ \E e \in lookup.cache0 : e.addr = lookup.addr /\ e.proc = lookup.proc
               /\ project.sim_procedures = lookup.cache0

\* a second lookup of a registered address, answered from the cache
C19_Witness ==
    /\ HasSubstitute(lookup.addr.method)
    /\ CachedBefore(lookup.addr)
    /\ lookup.proc # NoProcedure
    /\ Cardinality(lookup.made) = 1
    /\ project.sim_procedures = lookup.cache0

FailedWithIncorrectLocation == Processed /\ raised = "IncorrectLocationException"

\* C20 as stated: whenever _process fails with IncorrectLocation the
\* accumulator holds no successor and is not marked processed.
C20_NoSuccessorOnFailure ==
    FailedWithIncorrectLocation =>
        /\ successors = <<>>
        /\ ~processed

\* C20 amended: whenever _process fails with IncorrectLocation the accumulator
\* is not marked processed, and it holds no successor unless the failure comes
\* from a branch pair without a target: then it holds exactly the successors
\* of the pairs of that branch before the failing pair.
C20_OnlyEarlierBranchSuccessorsOnFailure ==
    FailedWithIncorrectLocation =>
        /\ ~processed
        /\ handled # <<>>
        /\ LET i == handled[Len(handled)]
           IN  IF IsBranch(CurrentBlock[i + 1])
               THEN /\ Len(successors) = PairsBeforeAbsent(i)
                    /\ \A n \in 1..Len(successors) : BranchSuccessor(i, n)
               ELSE successors = <<>>

\* a two-way branch at the end of the method: the pair with a target left its
\* successor before the pair without a target failed
C20_Witness ==
    /\ FailedWithIncorrectLocation
    /\ IsBranch(CurrentBlock[handled[Len(handled)] + 1])
    /\ Len(successors) = 1
    /\ successors[1].site = "jump"
    /\ ~processed

====
